---- MODULE Spec2Model ----
(***************************************************************************)
(* Admin dashboard client: Session Store (localStorage), API Client        *)
(* (axios instance with request/response interceptors), Auth Controller    *)
(* (AdminAuthProvider), router and the login view.                         *)
(*                                                                         *)
(* One browser page is one process.  JavaScript handlers run to            *)
(* completion, so every handler (and every continuation after an await) is *)
(* one action.  A hard redirect (window.location.href = ...) only starts a *)
(* navigation: the page keeps running until the new document replaces it,  *)
(* which is the separate step PageUnload.                                  *)
(***************************************************************************)
EXTENDS Integers, Sequences, FiniteSets, Bags, TLC

\* Largest number of HTTP requests in flight at the same time.
MaxReq == 3

\* ------------------------------------------------------------------ data

TOKEN_KEY == "admin_token"
USER_KEY == "admin_user"

\* Opaque, non-empty token strings.
Tokens == {"t1", "t2"}

\* UserRecord {id, email, role}; NoAdmin is the null of useState(null).
NoAdmin == [id |-> 0, email |-> "", role |-> ""]
Admin1 == [id |-> 1, email |-> "a@x.com", role |-> "ADMIN"]
Admin2 == [id |-> 2, email |-> "b@x.com", role |-> "ADMIN"]
Customer3 == [id |-> 3, email |-> "c@x.com", role |-> "CUSTOMER"]
Admins == {Admin1, Admin2}
Users == Admins \cup {Customer3}

\* JSON text is a sequence of lexemes.
Stringify(u) ==
    <<"{", "id", ToString(u.id), "email", u.email, "role", u.role, "}">>

NullText == <<"null">>
\* A write cut short, and a value that never was JSON.
CorruptTexts == {SubSeq(Stringify(Admin1), 1, 5), <<"[object Object]">>}

IsObjectText(t) ==
    /\ Len(t) = 8
    /\ t[1] = "{" /\ t[2] = "id" /\ t[4] = "email" /\ t[6] = "role" /\ t[8] = "}"
    /\ \E i \in 0..9 : ToString(i) = t[3]

\* JSON.parse: ok = FALSE stands for the SyntaxError it throws.
Parse(t) ==
    IF t = NullText
    THEN [ok |-> TRUE, value |-> NoAdmin]
    ELSE IF IsObjectText(t)
    THEN [ok |-> TRUE,
          value |-> [id |-> CHOOSE i \in 0..9 : ToString(i) = t[3],
                     email |-> t[5], role |-> t[7]]]
    ELSE [ok |-> FALSE, value |-> NoAdmin]

\* localStorage: a function whose domain is the set of keys that are present.
EmptyStorage == [k \in {} |-> ""]
getItemPresent(ls, k) == k \in DOMAIN ls
removeItem(ls, k) == [j \in (DOMAIN ls) \ {k} |-> ls[j]]
setItem(ls, k, v) == [j \in (DOMAIN ls) \cup {k} |-> IF j = k THEN v ELSE ls[j]]

SessionStorage(t, text) == setItem(setItem(EmptyStorage, TOKEN_KEY, t), USER_KEY, text)

\* ------------------------------------------------------------------ state

VARIABLES
    localStorage,   \* persistent across page loads
    admin,          \* AdminAuthProvider: useState(null)
    loading,        \* AdminAuthProvider: useState(true)
    path,           \* router location
    guard,          \* what ProtectedRoute returned for the location the last step asked for
    href,           \* pending hard navigation ("" when none)
    inflight,       \* bag of HTTP requests sent and not yet answered
    formLoading,    \* AdminLogin: useState(false)
    formError,      \* AdminLogin: useState('')
    productManagement,  \* ProductManagement: showDeleteModal, productToDelete, deleting
    batch,          \* history: interceptor effects for the requests of the last fetchData
    saved,          \* history: the last write to the Session Store
    last,           \* history: the last handler that ran, what it saw and what it returned
    raw,            \* response.data.products of GET /admin/products
    data            \* what the wrapper called last returned

vars == <<localStorage, admin, loading, path, guard, href, inflight,
          formLoading, formError, productManagement, batch, saved, last, raw, data>>

dataVars == <<raw, data>>

\* ------------------------------------------------------------------ HTTP

NoReply == [status |-> -1, token |-> "", user |-> NoAdmin, error |-> ""]

\* status 0: the request failed without a response (error.response undefined).
ErrorReplies ==
    {[status |-> s, token |-> "", user |-> NoAdmin, error |-> e] :
        s \in {401, 500}, e \in {"", "Invalid credentials"}}
    \cup {[status |-> 0, token |-> "", user |-> NoAdmin, error |-> ""]}

\* POST /auth/login answers {token, user:{id,email,role}} on success.
LoginReplies ==
    {[status |-> 200, token |-> t, user |-> u, error |-> ""] : t \in Tokens, u \in Users}
    \cup ErrorReplies

ApiReplies ==
    {[status |-> s, token |-> "", user |-> NoAdmin, error |-> ""] : s \in {200, 401, 500, 0}}

NoHeader == << >>

\* Variant of RequestInterceptor: the header is set without looking whether
\* a token is stored.
RequestInterceptor_NoPresenceCheck(ls) ==
    <<"Bearer", IF getItemPresent(ls, TOKEN_KEY) THEN ls[TOKEN_KEY] ELSE "null">>

\* adminAxios.interceptors.request: the Authorization header of the request.
RequestInterceptor(ls) ==
    IF getItemPresent(ls, TOKEN_KEY) THEN <<"Bearer", ls[TOKEN_KEY]>> ELSE NoHeader

\* The resource wrappers: the method and the URL each one hands to
\* adminAxios.  "api" is productsAPI.getAll (colorsAPI.getAll and
\* sizesAPI.getAll send the same request).
Endpoint(method, url) == [method |-> method, url |-> url]

adminAPI == ("login" :> Endpoint("POST", <<"auth", "login">>))

productsAPI ==
    ("api" :> Endpoint("GET", <<"admin", "products">>))
    @@ ("products.getById" :> Endpoint("GET", <<"admin", "products", ":id">>))
    @@ ("products.create" :> Endpoint("POST", <<"admin", "products">>))
    @@ ("products.update" :> Endpoint("PUT", <<"admin", "products", ":id">>))
    @@ ("delete" :> Endpoint("DELETE", <<"admin", "products", ":id">>))
    @@ ("products.markOnSale" :>
            Endpoint("PATCH", <<"admin", "products", ":id", "sale", "mark">>))
    @@ ("products.removeFromSale" :>
            Endpoint("PATCH", <<"admin", "products", ":id", "sale", "remove">>))

inventoryAPI ==
    ("inventory.update" :> Endpoint("PATCH", <<"admin", "products", ":id", "inventory">>))

\* Variant of ordersAPI: a wrapper that cancels an order.
ordersAPI_WithCancel ==
    ("orders.getAll" :> Endpoint("GET", <<"admin", "orders">>))
    @@ ("orders.getById" :> Endpoint("GET", <<"admin", "orders", ":id">>))
    @@ ("orders.cancel" :> Endpoint("PATCH", <<"admin", "orders", ":id", "cancel">>))

ordersAPI ==
    ("orders.getAll" :> Endpoint("GET", <<"admin", "orders">>))
    @@ ("orders.getById" :> Endpoint("GET", <<"admin", "orders", ":id">>))

Wrappers == adminAPI @@ productsAPI @@ inventoryAPI @@ ordersAPI

\* A number as JavaScript has it: an integer or NaN.
Num(n) == [nan |-> FALSE, n |-> n]
NaN == [nan |-> TRUE, n |-> 0]

\* The request body (the fields the model follows): quantity of an
\* inventory update and the product whose size and colour identifiers it
\* names.
NoBody == [detailsOf |-> "", quantity |-> Num(0)]

\* id: the :id of the URL ("" when it has none); caller: the handler that
\* awaits the request, when the model follows it; live: the component
\* instance of that handler is still mounted.
Request(kind, ls, inBatch) ==
    [kind |-> kind, hdr |-> RequestInterceptor(ls), batch |-> inBatch,
     id |-> "", caller |-> "", live |-> FALSE,
     method |-> Wrappers[kind].method, url |-> Wrappers[kind].url, body |-> NoBody]

\* productsAPI.delete(id)
DeleteRequest(ls, id) ==
    [Request("delete", ls, FALSE) EXCEPT !.id = id, !.caller = "confirmDelete",
                                         !.live = TRUE]

\* The requests in flight after the component that awaits them was unmounted.
Orphaned(B) ==
    [q \in {[r EXCEPT !.live = FALSE] : r \in BagToSet(B)} |->
        CopiesIn(q, B) + CopiesIn([q EXCEPT !.live = TRUE], B)]

\* What the caller's await sees: the promise the response interceptor returned.
Settlement(trace) ==
    IF trace # << >> /\ trace[Len(trace)] = "reject" THEN "reject" ELSE "resolve"

\* Variant of ResponseInterceptor: every error response with a status ends
\* the session, not only 401.
ResponseInterceptor_AnyStatus(ls, hr, reply) ==
    IF reply.status = 200
    THEN [ls |-> ls, href |-> hr, trace |-> <<"resolve">>]
    ELSE IF reply.status # 0
    THEN [ls |-> removeItem(removeItem(ls, TOKEN_KEY), USER_KEY), href |-> "/login",
          trace |-> <<"clear", "redirect", "reject">>]
    ELSE [ls |-> ls, href |-> hr, trace |-> <<"reject">>]

\* Variant of ResponseInterceptor: a 401 clears the store but the redirect is
\* missing.
ResponseInterceptor_NoRedirect(ls, hr, reply) ==
    IF reply.status = 200
    THEN [ls |-> ls, href |-> hr, trace |-> <<"resolve">>]
    ELSE IF reply.status = 401
    THEN [ls |-> removeItem(removeItem(ls, TOKEN_KEY), USER_KEY), href |-> hr,
          trace |-> <<"clear", "reject">>]
    ELSE [ls |-> ls, href |-> hr, trace |-> <<"reject">>]

\* Variant of ResponseInterceptor: a 401 removes the token entry only.
ResponseInterceptor_KeepsUser(ls, hr, reply) ==
    IF reply.status = 200
    THEN [ls |-> ls, href |-> hr, trace |-> <<"resolve">>]
    ELSE IF reply.status = 401
    THEN [ls |-> removeItem(ls, TOKEN_KEY), href |-> "/login",
          trace |-> <<"clear", "redirect", "reject">>]
    ELSE [ls |-> ls, href |-> hr, trace |-> <<"reject">>]

\* Variant of ResponseInterceptor: the error handler does not return the
\* rejection, so the promise resolves.
ResponseInterceptor_Swallows(ls, hr, reply) ==
    IF reply.status = 200
    THEN [ls |-> ls, href |-> hr, trace |-> <<"resolve">>]
    ELSE IF reply.status = 401
    THEN [ls |-> removeItem(removeItem(ls, TOKEN_KEY), USER_KEY), href |-> "/login",
          trace |-> <<"clear", "redirect">>]
    ELSE [ls |-> ls, href |-> hr, trace |-> << >>]

\* Variant of ResponseInterceptor: a 401 redirects to the login page but the
\* store is left as it is.
ResponseInterceptor_KeepsStore(ls, hr, reply) ==
    IF reply.status = 200
    THEN [ls |-> ls, href |-> hr, trace |-> <<"resolve">>]
    ELSE IF reply.status = 401
    THEN [ls |-> ls, href |-> "/login", trace |-> <<"redirect", "reject">>]
    ELSE [ls |-> ls, href |-> hr, trace |-> <<"reject">>]

\* adminAxios.interceptors.response: the effects, in program order, and the
\* settlement handed to the caller.  c is [ls, href, trace].
ResponseInterceptor(ls, hr, reply) ==
    IF reply.status = 200
    THEN [ls |-> ls, href |-> hr, trace |-> <<"resolve">>]
    ELSE LET c0 == [ls |-> ls, href |-> hr, trace |-> << >>]
             c1 == IF reply.status = 401
                   THEN [c0 EXCEPT !.ls = removeItem(removeItem(c0.ls, TOKEN_KEY), USER_KEY),
                                   !.trace = Append(c0.trace, "clear")]
                   ELSE c0
             c2 == IF reply.status = 401
                   THEN [c1 EXCEPT !.href = "/login",
                                   !.trace = Append(c1.trace, "redirect")]
                   ELSE c1
         IN  [c2 EXCEPT !.trace = Append(c2.trace, "reject")]

\* ------------------------------------------------------------------ router

ProtectedPaths == {"/", "/products", "/orders"}
EntryPaths == {"/login", "/", "/products", "/orders", "/nowhere"}

\* The location is not under ProtectedRoute.
NoGuard == [view |-> "none", to |-> "", replace |-> FALSE]

\* Variant of ProtectedRoute: the loading check is missing.
ProtectedRoute_NoLoadingCheck(ld, isAuth) ==
    IF isAuth
    THEN [view |-> "outlet", to |-> "", replace |-> FALSE]
    ELSE [view |-> "redirect", to |-> "/login", replace |-> TRUE]

\* ProtectedRoute: the spinner, <Outlet /> or <Navigate to="/login" replace />.
ProtectedRoute(ld, isAuth) ==
    IF ld
    THEN [view |-> "pending", to |-> "", replace |-> FALSE]
    ELSE IF isAuth
    THEN [view |-> "outlet", to |-> "", replace |-> FALSE]
    ELSE [view |-> "redirect", to |-> "/login", replace |-> TRUE]

\* The location after AdminLogin's effect (navigate('/products') when
\* authenticated).
AfterLoginEffect(p, adm) == IF p = "/login" /\ adm # NoAdmin THEN "/products" ELSE p

\* What ProtectedRoute returns when location p is rendered.
GuardAt(p, adm, ld) ==
    IF AfterLoginEffect(p, adm) \in ProtectedPaths
    THEN ProtectedRoute(ld, adm # NoAdmin)
    ELSE NoGuard

\* One navigation of the router: where the element rendered at location p
\* sends the browser (p itself when it stays).  /login renders AdminLogin,
\* whose effect calls navigate('/products') when authenticated; the protected
\* routes render ProtectedRoute and, inside it, "/" renders
\* <Navigate to="/products" replace />; any other path renders
\* <Navigate to="/login" replace />.
Navigate(p, adm, ld) ==
    IF p = "/login" THEN AfterLoginEffect(p, adm)
    ELSE IF p \in ProtectedPaths
    THEN LET g == ProtectedRoute(ld, adm # NoAdmin)
         IN  IF g.view = "redirect" THEN g.to
             ELSE IF g.view = "outlet" /\ p = "/" THEN "/products"
             ELSE p
    ELSE "/login"

\* AdminLogin's effect, ProtectedRoute and the routes of App, applied until
\* the location is stable.
Route(p, adm, ld) ==
    LET p1 == AfterLoginEffect(p, adm)
        g == GuardAt(p, adm, ld)
    IN  IF p1 \in ProtectedPaths
        THEN IF g.view = "redirect" THEN g.to
             ELSE IF g.view = "outlet" /\ p1 = "/" THEN "/products"
             ELSE p1
        ELSE "/login"

isAuthenticated == admin # NoAdmin

\* A protected view (AdminLayout and its page) is on screen.
ProtectedRendered == ~loading /\ isAuthenticated /\ path \in {"/products", "/orders"}

\* ------------------------------------------------------------------ product data

\* Largest raw product list: its products plus the items of all their
\* colors and sizes arrays.
\* The variant form is followed up to MaxRows size rows in all variants
\* together.
MaxRows == 3

MaxData == 6

\* A JSON item of a colors or sizes array: a bare scalar, or an object
\* {value: scalar}.  type is the typeof of the scalar.
Bare(type, v) == [shape |-> "bare", type |-> type, v |-> v]
Wrapped(type, v) == [shape |-> "obj", type |-> type, v |-> v]
Undefined == Bare("undefined", "")

ColorItems == {Bare("string", "red"), Wrapped("string", "red"), Wrapped("string", "blue")}
SizeItems == {Bare("string", "7"), Wrapped("string", "8"), Bare("number", "7")}

\* typeof x === 'string'
IsString(x) == x.shape = "bare" /\ x.type = "string"

\* x.value, for x a string, a number or an object.
ValueOf(x) == IF x.shape = "obj" THEN Bare(x.type, x.v) ELSE Undefined

SeqsUpTo(S, n) == UNION {[1..k -> S] : k \in 0..n}

RawProduct(cs, ss) == [main_image |-> "/uploads/a.png", image |-> "", colors |-> cs, sizes |-> ss]

Weight(p) == 1 + Len(p.colors) + Len(p.sizes)

RawProductsOfWeight(w) ==
    {RawProduct(cs, ss) : cs \in SeqsUpTo(ColorItems, w - 1), ss \in SeqsUpTo(SizeItems, w - 1)}

RECURSIVE RawLists(_)
\* The product lists of total weight at most n.
RawLists(n) ==
    {<< >>} \cup
    UNION {{<<p>> \o l : l \in RawLists(n - Weight(p))} :
             p \in {q \in RawProductsOfWeight(n) : Weight(q) <= n}}

MapSeq(F(_), q) == [k \in DOMAIN q |-> F(q[k])]

\* c => typeof c === 'string' ? c : c.value
NormColor(c) == IF IsString(c) THEN c ELSE ValueOf(c)

\* Variant of NormSize: the second branch copied from the colors line.
NormSize_Unwraps(x) == IF IsString(x) THEN Wrapped("string", x.v) ELSE ValueOf(x)

\* s => typeof s === 'string' ? { value: s } : s
NormSize(x) == IF IsString(x) THEN Wrapped("string", x.v) ELSE x

\* The map callback of productsAPI.getAll.
NormalizeProduct(p) ==
    [p EXCEPT !.image = p.main_image,
              !.colors = MapSeq(NormColor, p.colors),
              !.sizes = MapSeq(NormSize, p.sizes)]

\* productsAPI.getAll on the response body.
productsGetAll(products) == MapSeq(NormalizeProduct, products)

RECURSIVE FlatMap(_, _)
\* products.flatMap(p => p[field])
FlatMap(products, field) ==
    IF products = << >> THEN << >>
    ELSE Head(products)[field] \o FlatMap(Tail(products), field)

\* Key equality of Map and Set: primitives by value, objects by identity
\* (every object of the parsed response is a different object).
SameKey(all, i, j) ==
    IF all[i].shape = "obj" \/ all[j].shape = "obj" THEN i = j ELSE all[i] = all[j]

RECURSIVE Unique(_, _)
\* The items of all in insertion order of their keys, from position k on.
Unique(all, k) ==
    IF k > Len(all) THEN << >>
    ELSE IF \E j \in 1..(k - 1) : SameKey(all, j, k)
    THEN Unique(all, k + 1)
    ELSE <<all[k]>> \o Unique(all, k + 1)

Entry(c) == [id |-> c, value |-> c]

\* colorsAPI.getAll on the response body.
colorsGetAll(products) == MapSeq(Entry, Unique(FlatMap(products, "colors"), 1))

\* sizesAPI.getAll on the response body.
sizesGetAll(products) == MapSeq(Entry, Unique(FlatMap(products, "sizes"), 1))

NoData == [op |-> "none", products |-> << >>, again |-> << >>, list |-> << >>]

\* ------------------------------------------------------------------ product page

\* The rows of the products table.
ProductIds == {"p1", "p2"}

\* { color: '', sizes: [{ value: '', quantity: '' }], isCustomColor: false };
\* the form resets leave isCustomColor out ("undefined").
EmptySize == [value |-> "", quantity |-> ""]
EmptyVariant(isCustomColor) ==
    [color |-> "", sizes |-> <<EmptySize>>, isCustomColor |-> isCustomColor]

\* ProductManagement's delete state as useState initialises it
\* (productToDelete null is written "").
ClosedModal ==
    [showDeleteModal |-> FALSE, productToDelete |-> "", deleting |-> FALSE,
     showSaleModal |-> FALSE, productForSale |-> "", salePrice |-> << >>,
     expandedProduct |-> "", productDetails |-> "",
     variants |-> <<EmptyVariant("false")>>]

ProductManagementMounted == ProtectedRendered /\ path = "/products"

\* {showDeleteModal && productToDelete && ( ...modal... )}
DeleteModalRendered ==
    productManagement.showDeleteModal /\ productManagement.productToDelete # ""

openDeleteModal(pm, product) ==
    [pm EXCEPT !.productToDelete = product, !.showDeleteModal = TRUE]

closeDeleteModal(pm) ==
    [pm EXCEPT !.showDeleteModal = FALSE, !.productToDelete = ""]

\* The three requests of fetchData (Promise.all of the three getAll wrappers).
fetchData(ls) == [q \in {Request("api", ls, TRUE)} |-> 3]

\* confirmDelete up to the await: the page state and the request sent.
confirmDelete(pm, ls) ==
    IF pm.productToDelete = ""
    THEN [pm |-> pm, out |-> EmptyBag]
    ELSE [pm |-> [pm EXCEPT !.deleting = TRUE],
          out |-> SetToBag({DeleteRequest(ls, pm.productToDelete)})]

\* Variant of confirmDeleteSettled: closeDeleteModal() sits in the finally
\* block.
confirmDeleteSettled_ClosesAlways(pm, settlement, ls, reply) ==
    IF settlement = "resolve"
    THEN [pm |-> [closeDeleteModal(pm) EXCEPT !.deleting = FALSE],
          out |-> fetchData(ls),
          result |-> [kind |-> "returned", success |-> TRUE, error |-> ""]]
    ELSE [pm |-> [closeDeleteModal(pm) EXCEPT !.deleting = FALSE],
          out |-> EmptyBag,
          result |-> [kind |-> "alert", success |-> FALSE,
                      error |-> IF reply.status # 0 /\ reply.error # ""
                                THEN reply.error ELSE "Failed to delete product"]]

\* confirmDelete from the point where the awaited request has settled:
\* try (fetchData(); closeDeleteModal()), catch (alert), finally.
confirmDeleteSettled(pm, settlement, ls, reply) ==
    IF settlement = "resolve"
    THEN [pm |-> [closeDeleteModal(pm) EXCEPT !.deleting = FALSE],
          out |-> fetchData(ls),
          result |-> [kind |-> "returned", success |-> TRUE, error |-> ""]]
    ELSE [pm |-> [pm EXCEPT !.deleting = FALSE],
          out |-> EmptyBag,
          result |-> [kind |-> "alert", success |-> FALSE,
                      error |-> IF reply.status # 0 /\ reply.error # ""
                                THEN reply.error ELSE "Failed to delete product"]]

\* ---- inventory panel

Digits == <<"0", "1", "2", "3", "4", "5", "6", "7", "8", "9">>

IsDigit(ch) == \E k \in DOMAIN Digits : Digits[k] = ch

DigitValue(ch) == (CHOOSE k \in DOMAIN Digits : Digits[k] = ch) - 1

\* The number of digits of text from position i on, up to the first other
\* character.
RECURSIVE LeadingDigits(_, _)
LeadingDigits(text, i) ==
    IF i <= Len(text) /\ IsDigit(text[i]) THEN 1 + LeadingDigits(text, i + 1) ELSE 0

RECURSIVE DecimalValue(_, _, _)
DecimalValue(text, i, n) ==
    IF n = 0 THEN 0
    ELSE 10 * DecimalValue(text, i, n - 1) + DigitValue(text[i + n - 1])

\* parseInt(text): an optional sign, then the digits up to the first other
\* character; NaN when there is no digit.
parseInt(text) ==
    LET signed == text # << >> /\ text[1] \in {"-", "+"}
        start == IF signed THEN 2 ELSE 1
        n == LeadingDigits(text, start)
        v == DecimalValue(text, start, n)
    IN  IF n = 0 THEN NaN
        ELSE Num(IF signed /\ text[1] = "-" THEN 0 - v ELSE v)

\* What document.getElementById('qty-...').value can be when Update is
\* pressed: a number input yields '' or the text of a floating-point number.
QuantityInputs == {<< >>, <<"1", "2">>, <<"-", "3">>, <<"2", ".", "5">>}

\* {expandedProduct === product.id && productDetails && ( ...panel... )}
InventoryPanelRendered(pm) == pm.expandedProduct # "" /\ pm.productDetails # ""

\* productsAPI.getById(productId) as fetchProductDetails sends it.
DetailsRequest(ls, productId, caller, live) ==
    [Request("products.getById", ls, FALSE) EXCEPT
        !.id = productId, !.caller = caller, !.live = live]

\* toggleInventory up to its await.
toggleInventory(pm, ls, productId) ==
    IF pm.expandedProduct = productId
    THEN [pm |-> [pm EXCEPT !.expandedProduct = "", !.productDetails = ""],
          out |-> EmptyBag]
    ELSE [pm |-> [pm EXCEPT !.expandedProduct = productId],
          out |-> SetToBag({DetailsRequest(ls, productId, "toggleInventory", TRUE)})]

\* fetchProductDetails from the point where its request has settled.
fetchProductDetailsSettled(pm, settlement, productId) ==
    IF settlement = "resolve" THEN [pm EXCEPT !.productDetails = productId] ELSE pm

\* handleUpdateInventory(product.id, inv.size_id, inv.color_id, input value)
\* up to its first await; inv is a row of productDetails.variants.
handleUpdateInventory(pm, ls, newQuantity) ==
    [Request("inventory.update", ls, FALSE) EXCEPT
        !.id = pm.expandedProduct, !.caller = "handleUpdateInventory", !.live = TRUE,
        !.body = [detailsOf |-> pm.productDetails, quantity |-> parseInt(newQuantity)]]

\* ---- sale modal

\* The handlers bound to the buttons of a product row (Edit, Inventory,
\* Delete).
RowActions == {"openEditModal", "toggleInventory", "openDeleteModal"}

\* product.selling_price of the listed products.
SellingPrice(product) == IF product = "p1" THEN 100 ELSE 45

\* Number.prototype.toString of a non-negative integer.
RECURSIVE ToText(_)
ToText(n) ==
    IF n < 10 THEN <<Digits[n + 1]>>
    ELSE Append(ToText(n \div 10), Digits[(n % 10) + 1])

\* {showSaleModal && productForSale && ( ...modal... )}
SaleModalRendered(pm) == pm.showSaleModal /\ pm.productForSale # ""

\* Math.floor(parseFloat(product.selling_price) * 0.8).toString() is the
\* suggested price.
openSaleModal(pm, product) ==
    [pm EXCEPT !.productForSale = product,
               !.salePrice = ToText((SellingPrice(product) * 8) \div 10),
               !.showSaleModal = TRUE]

closeSaleModal(pm) ==
    [pm EXCEPT !.showSaleModal = FALSE, !.productForSale = "", !.salePrice = << >>]

\* handleMarkOnSale up to its await: the request sent.
handleMarkOnSale(pm, ls) ==
    IF pm.productForSale = "" \/ pm.salePrice = << >>
    THEN EmptyBag
    ELSE SetToBag({[Request("products.markOnSale", ls, FALSE) EXCEPT
                        !.id = pm.productForSale, !.caller = "handleMarkOnSale",
                        !.live = TRUE]})

\* ---- variant form

\* array.filter((_, i) => i !== index)
RemoveAt(q, index) ==
    [k \in 1..(Len(q) - 1) |-> IF k < index THEN q[k] ELSE q[k + 1]]

addVariant(variants) == Append(variants, EmptyVariant("false"))

removeVariant(variants, index) ==
    LET newVariants == RemoveAt(variants, index)
    IN  IF Len(newVariants) > 0 THEN newVariants ELSE <<EmptyVariant("false")>>

updateVariantColor(variants, index, color) ==
    [variants EXCEPT ![index].color = color]

addSizeToVariant(variants, variantIndex) ==
    [variants EXCEPT ![variantIndex].sizes = Append(@, EmptySize)]

removeSizeFromVariant(variants, variantIndex, sizeIndex) ==
    LET sizes == RemoveAt(variants[variantIndex].sizes, sizeIndex)
    IN  [variants EXCEPT ![variantIndex].sizes =
                             IF Len(sizes) = 0 THEN <<EmptySize>> ELSE sizes]

updateVariantSize(variants, variantIndex, sizeIndex, field, value) ==
    [variants EXCEPT ![variantIndex].sizes[sizeIndex][field] = value]

\* Variant of resetVariants: the form is reset to an empty list.
resetVariants_Empty == << >>

\* setVariants([{ color: '', sizes: [{ value: '', quantity: '' }] }]) of
\* handleAddProduct and handleEditProduct.
resetVariants == <<EmptyVariant("undefined")>>

\* productsAPI.create(formData) as handleAddProduct sends it.
handleAddProduct(ls) ==
    [Request("products.create", ls, FALSE) EXCEPT !.caller = "handleAddProduct",
                                                  !.live = TRUE]

\* handleAddProduct from the point where the awaited request has settled.
handleAddProductSettled(pm, settlement, ls) ==
    IF settlement = "resolve"
    THEN [pm |-> [pm EXCEPT !.variants = resetVariants], out |-> fetchData(ls),
          result |-> [kind |-> "returned", success |-> TRUE, error |-> ""]]
    ELSE [pm |-> pm, out |-> EmptyBag,
          result |-> [kind |-> "alert", success |-> FALSE,
                      error |-> "Failed to create product"]]

\* ------------------------------------------------------------------ history

NoResult == [kind |-> "none", success |-> FALSE, error |-> ""]

\* What a handler works on: the store, the controller state, the location and
\* the requests it sends (out).
Snapshot ==
    [ls |-> localStorage, admin |-> admin, loading |-> loading, path |-> path,
     href |-> href, out |-> EmptyBag]

Record(op, reply, result, call, trace) ==
    [op |-> op, pre |-> Snapshot, reply |-> reply, result |-> result,
     call |-> call, trace |-> trace]

Count(trace, e) == Cardinality({k \in DOMAIN trace : trace[k] = e})

NoBatch == [clears |-> 0, redirects |-> 0]

\* by: the operation (login, logout, 401) that last wrote or cleared the
\* entries; restarted: a process start happened since; corrupt: a restore
\* removed an undecodable payload and no login has succeeded since.
Saved(by, t, u, corrupt) ==
    [by |-> by, token |-> t, user |-> u, restarted |-> FALSE, corrupt |-> corrupt]

\* What the caller of a resource wrapper gets from its await: the wrappers
\* hand the promise of adminAxios through.
wrapperSettled(settlement) ==
    [kind |-> IF settlement = "reject" THEN "rejected" ELSE "resolved",
     success |-> settlement = "resolve", error |-> ""]

\* ------------------------------------------------------------------ Auth Controller

\* Variant of restoreSession: the stored user is never put into the state.
restoreSession_NoSetAdmin(c) ==
    LET hasBoth == getItemPresent(c.ls, TOKEN_KEY) /\ getItemPresent(c.ls, USER_KEY)
        parsed == Parse(c.ls[USER_KEY])
        c1 == IF hasBoth /\ ~parsed.ok
              THEN [c EXCEPT !.ls = removeItem(removeItem(c.ls, TOKEN_KEY), USER_KEY)]
              ELSE c
    IN  [c1 EXCEPT !.loading = FALSE]

\* Variant of restoreSession: no try/catch around JSON.parse, the effect is
\* aborted by the SyntaxError.
restoreSession_NoCatch(c) ==
    LET hasBoth == getItemPresent(c.ls, TOKEN_KEY) /\ getItemPresent(c.ls, USER_KEY)
        parsed == Parse(c.ls[USER_KEY])
    IN  IF hasBoth
        THEN IF parsed.ok
             THEN [c EXCEPT !.admin = parsed.value, !.loading = FALSE]
             ELSE c
        ELSE [c EXCEPT !.loading = FALSE]

\* AdminAuthProvider, useEffect on mount.
restoreSession(c) ==
    LET hasBoth == getItemPresent(c.ls, TOKEN_KEY) /\ getItemPresent(c.ls, USER_KEY)
        parsed == Parse(c.ls[USER_KEY])
        c1 == IF hasBoth
              THEN IF parsed.ok
                   THEN [c EXCEPT !.admin = parsed.value]
                   ELSE [c EXCEPT !.ls = removeItem(removeItem(c.ls, TOKEN_KEY), USER_KEY)]
              ELSE c
    IN  [c1 EXCEPT !.loading = FALSE]

\* Variant of loginSettled: the role of the returned user is not checked.
loginSettled_NoRoleCheck(c, reply) ==
    IF reply.status # 200
    THEN [ctx |-> c,
          result |-> [kind |-> "returned", success |-> FALSE,
                      error |-> IF reply.status # 0 /\ reply.error # ""
                                THEN reply.error ELSE "Login failed"]]
    ELSE [ctx |-> [c EXCEPT !.ls = setItem(setItem(c.ls, TOKEN_KEY, reply.token),
                                           USER_KEY, Stringify(reply.user)),
                            !.admin = reply.user],
          result |-> [kind |-> "returned", success |-> TRUE, error |-> ""]]

\* Variant of loginSettled: the session is stored but setAdmin is forgotten.
loginSettled_NoSetAdmin(c, reply) ==
    IF reply.status # 200
    THEN [ctx |-> c,
          result |-> [kind |-> "returned", success |-> FALSE,
                      error |-> IF reply.status # 0 /\ reply.error # ""
                                THEN reply.error ELSE "Login failed"]]
    ELSE IF reply.user.role # "ADMIN"
    THEN [ctx |-> c,
          result |-> [kind |-> "returned", success |-> FALSE,
                      error |-> "Access denied. Admin privileges required."]]
    ELSE [ctx |-> [c EXCEPT !.ls = setItem(setItem(c.ls, TOKEN_KEY, reply.token),
                                           USER_KEY, Stringify(reply.user))],
          result |-> [kind |-> "returned", success |-> TRUE, error |-> ""]]

\* Variant of loginSettled: the server's message is ignored.
loginSettled_GenericError(c, reply) ==
    IF reply.status # 200
    THEN [ctx |-> c,
          result |-> [kind |-> "returned", success |-> FALSE, error |-> "Login failed"]]
    ELSE IF reply.user.role # "ADMIN"
    THEN [ctx |-> c,
          result |-> [kind |-> "returned", success |-> FALSE,
                      error |-> "Access denied. Admin privileges required."]]
    ELSE [ctx |-> [c EXCEPT !.ls = setItem(setItem(c.ls, TOKEN_KEY, reply.token),
                                           USER_KEY, Stringify(reply.user)),
                            !.admin = reply.user],
          result |-> [kind |-> "returned", success |-> TRUE, error |-> ""]]

\* Variant of loginSettled: the user object is stored without JSON.stringify,
\* so localStorage coerces it to a string.
loginSettled_StoresObject(c, reply) ==
    IF reply.status # 200
    THEN [ctx |-> c,
          result |-> [kind |-> "returned", success |-> FALSE,
                      error |-> IF reply.status # 0 /\ reply.error # ""
                                THEN reply.error ELSE "Login failed"]]
    ELSE IF reply.user.role # "ADMIN"
    THEN [ctx |-> c,
          result |-> [kind |-> "returned", success |-> FALSE,
                      error |-> "Access denied. Admin privileges required."]]
    ELSE [ctx |-> [c EXCEPT !.ls = setItem(setItem(c.ls, TOKEN_KEY, reply.token),
                                           USER_KEY, <<"[object Object]">>),
                            !.admin = reply.user],
          result |-> [kind |-> "returned", success |-> TRUE, error |-> ""]]

\* login(), from the point where the awaited request has settled.
loginSettled(c, reply) ==
    IF reply.status # 200
    THEN [ctx |-> c,
          result |-> [kind |-> "returned", success |-> FALSE,
                      error |-> IF reply.status # 0 /\ reply.error # ""
                                THEN reply.error ELSE "Login failed"]]
    ELSE IF reply.user.role # "ADMIN"
    THEN [ctx |-> c,
          result |-> [kind |-> "returned", success |-> FALSE,
                      error |-> "Access denied. Admin privileges required."]]
    ELSE [ctx |-> [c EXCEPT !.ls = setItem(setItem(c.ls, TOKEN_KEY, reply.token),
                                           USER_KEY, Stringify(reply.user)),
                            !.admin = reply.user],
          result |-> [kind |-> "returned", success |-> TRUE, error |-> ""]]

\* Variant of logout: only the token entry is removed.
logout_KeepsUser(c) ==
    [c EXCEPT !.ls = removeItem(c.ls, TOKEN_KEY), !.admin = NoAdmin]

\* Variant of logout: the store is emptied but setAdmin(null) is missing.
logout_KeepsAdmin(c) ==
    [c EXCEPT !.ls = removeItem(removeItem(c.ls, TOKEN_KEY), USER_KEY)]

\* logout().
logout(c) ==
    [c EXCEPT !.ls = removeItem(removeItem(c.ls, TOKEN_KEY), USER_KEY),
              !.admin = NoAdmin]

\* ------------------------------------------------------------------ actions

\* The store at process start: what an earlier run of this program left
\* (nothing, or the session of an ADMIN login), or a pair whose user payload
\* was damaged or replaced by the JSON text null.  The program writes and
\* removes the two entries together, so a store with one entry only is not
\* among them.
InitStorages ==
    {EmptyStorage}
    \cup {SessionStorage(t, text) :
            t \in Tokens,
            text \in {Stringify(u) : u \in Admins} \cup CorruptTexts \cup {NullText}}

Init ==
    /\ localStorage \in InitStorages
    /\ admin = NoAdmin
    /\ loading = TRUE
    /\ \E p \in EntryPaths :
          /\ path = Route(p, NoAdmin, TRUE)
          /\ guard = GuardAt(p, NoAdmin, TRUE)
    /\ href = ""
    /\ inflight = EmptyBag
    /\ formLoading = FALSE
    /\ formError = ""
    /\ productManagement = ClosedModal
    /\ batch = NoBatch
    /\ raw = << >>
    /\ data = NoData
    /\ saved = [Saved("start", "", NoAdmin, FALSE) EXCEPT !.restarted = TRUE]
    /\ last = [op |-> "start",
               pre |-> [ls |-> localStorage, admin |-> NoAdmin, loading |-> TRUE,
                        path |-> path, href |-> "", out |-> EmptyBag],
               reply |-> NoReply, result |-> NoResult,
               call |-> [ls |-> localStorage, admin |-> NoAdmin, loading |-> TRUE,
                         path |-> path, href |-> "", out |-> EmptyBag],
               trace |-> << >>]

\* A new document: React state starts over, requests of the old page are
\* dropped, localStorage stays.
Restart(p) ==
    /\ admin' = NoAdmin
    /\ loading' = TRUE
    /\ path' = Route(p, NoAdmin, TRUE)
    /\ guard' = GuardAt(p, NoAdmin, TRUE)
    /\ href' = ""
    /\ inflight' = EmptyBag
    /\ formLoading' = FALSE
    /\ formError' = ""
    /\ productManagement' = ClosedModal
    /\ batch' = NoBatch
    /\ saved' = [saved EXCEPT !.restarted = TRUE]
    /\ last' = Record("start", NoReply, NoResult, Snapshot, << >>)
    /\ UNCHANGED <<localStorage, raw, data>>

\* The navigation started by window.location.href = '/login' completes.
PageUnload ==
    /\ href # ""
    /\ Restart(href)

\* The administrator reloads the page or opens a URL.
Reload(p) ==
    /\ p \in EntryPaths
    /\ Restart(p)

\* Session restore (mount effect of AdminAuthProvider).
Restore ==
    /\ loading
    /\ LET c == restoreSession(Snapshot)
       IN  /\ localStorage' = c.ls
           /\ admin' = c.admin
           /\ loading' = c.loading
           /\ path' = Route(c.path, c.admin, c.loading)
           /\ guard' = GuardAt(c.path, c.admin, c.loading)
           /\ href' = c.href
           /\ inflight' = inflight (+) c.out
           /\ saved' = [saved EXCEPT !.corrupt = saved.corrupt \/ c.ls # localStorage]
           /\ last' = Record("restore", NoReply, NoResult, c, << >>)
    /\ UNCHANGED <<formLoading, formError, productManagement, batch, raw, data>>

\* AdminLogin.handleSubmit up to the await, login() up to the await.
LoginSubmit ==
    /\ ~loading
    /\ path = "/login"
    /\ ~formLoading
    /\ BagCardinality(inflight) < MaxReq
    /\ formError' = ""
    /\ formLoading' = TRUE
    /\ LET out == SetToBag({Request("login", localStorage, FALSE)})
       IN  /\ inflight' = inflight (+) out
           /\ last' = Record("submit", NoReply, NoResult,
                             [Snapshot EXCEPT !.out = out], << >>)
    /\ guard' = GuardAt(path, admin, loading)
    /\ UNCHANGED <<localStorage, admin, loading, path, href, productManagement,
                   batch, saved, raw, data>>

\* The login request settles: response interceptor, the rest of login(), the
\* rest of handleSubmit.
LoginResponse(req, reply) ==
    /\ req \in BagToSet(inflight)
    /\ req.kind = "login"
    /\ reply \in LoginReplies
    /\ LET i == ResponseInterceptor(localStorage, href, reply)
           r == loginSettled([Snapshot EXCEPT !.ls = i.ls, !.href = i.href], reply)
           c == r.ctx
       IN  /\ localStorage' = c.ls
           /\ admin' = c.admin
           /\ loading' = c.loading
           /\ href' = c.href
           /\ inflight' = (inflight (-) SetToBag({req})) (+) c.out
           /\ IF r.result.kind = "threw"
              THEN /\ path' = Route(c.path, c.admin, c.loading)
                   /\ guard' = GuardAt(c.path, c.admin, c.loading)
                   /\ UNCHANGED <<formLoading, formError>>
              ELSE /\ formLoading' = FALSE
                   /\ IF r.result.success
                      THEN /\ path' = Route("/products", c.admin, c.loading)
                           /\ guard' = GuardAt("/products", c.admin, c.loading)
                           /\ UNCHANGED formError
                      ELSE /\ path' = Route(c.path, c.admin, c.loading)
                           /\ guard' = GuardAt(c.path, c.admin, c.loading)
                           /\ formError' = r.result.error
           /\ saved' = IF r.result.success
                       THEN Saved("login", reply.token, reply.user, FALSE)
                       ELSE IF Count(i.trace, "clear") > 0
                       THEN Saved("401", "", NoAdmin, saved.corrupt)
                       ELSE saved
           /\ last' = Record("login", reply, r.result, c, i.trace)
    /\ UNCHANGED <<productManagement, batch, raw, data>>

\* AdminLayout.handleLogout: logout(), then navigate('/login').
HandleLogout ==
    /\ ProtectedRendered
    /\ LET c == logout(Snapshot)
       IN  /\ localStorage' = c.ls
           /\ admin' = c.admin
           /\ loading' = c.loading
           /\ href' = c.href
           /\ inflight' = Orphaned(inflight) (+) c.out
           /\ path' = Route("/login", c.admin, c.loading)
           /\ guard' = GuardAt("/login", c.admin, c.loading)
           /\ saved' = Saved("logout", "", NoAdmin, saved.corrupt)
           /\ last' = Record("logout", NoReply, NoResult, c, << >>)
    /\ productManagement' = ClosedModal
    /\ UNCHANGED <<formLoading, formError, batch, raw, data>>

\* A NavLink of AdminLayout (or a history navigation between the two
\* pages): the page on screen is unmounted and the other one mounted with
\* fresh state; requests already sent stay in flight.
ClickNav(p) ==
    /\ ProtectedRendered
    /\ p \in {"/products", "/orders"}
    /\ p # path
    /\ path' = Route(p, admin, loading)
    /\ guard' = GuardAt(p, admin, loading)
    /\ inflight' = Orphaned(inflight)
    /\ productManagement' = ClosedModal
    /\ last' = Record("nav", NoReply, NoResult, Snapshot, << >>)
    /\ UNCHANGED <<localStorage, admin, loading, href,
                   formLoading, formError, batch, saved, raw, data>>

\* ProductManagement.fetchData: three requests sent together (Promise.all).
FetchData ==
    /\ ProtectedRendered
    /\ path = "/products"
    /\ BagCardinality(inflight) + 3 <= MaxReq
    /\ \A q \in BagToSet(inflight) : ~q.batch
    /\ LET out == fetchData(localStorage)
       IN  /\ inflight' = inflight (+) out
           /\ last' = Record("fetchData", NoReply, NoResult,
                             [Snapshot EXCEPT !.out = out], << >>)
    /\ batch' = NoBatch
    /\ guard' = GuardAt(path, admin, loading)
    /\ UNCHANGED <<localStorage, admin, loading, path, href,
                   formLoading, formError, productManagement, saved, raw, data>>

\* Any other single call of a resource wrapper from a protected view.
SendApi ==
    /\ ProtectedRendered
    /\ BagCardinality(inflight) < MaxReq
    /\ LET out == SetToBag({Request("api", localStorage, FALSE)})
       IN  /\ inflight' = inflight (+) out
           /\ last' = Record("send", NoReply, NoResult,
                             [Snapshot EXCEPT !.out = out], << >>)
    /\ guard' = GuardAt(path, admin, loading)
    /\ UNCHANGED <<localStorage, admin, loading, path, href,
                   formLoading, formError, productManagement, batch, saved, raw, data>>

\* A request of a resource wrapper settles: response interceptor, then the
\* caller is resumed with the settlement.
ApiResponse(req, reply) ==
    /\ req \in BagToSet(inflight)
    /\ req.kind # "login"
    /\ req.caller = ""
    /\ reply \in ApiReplies
    /\ LET i == ResponseInterceptor(localStorage, href, reply)
           c == [Snapshot EXCEPT !.ls = i.ls, !.href = i.href]
       IN  /\ localStorage' = c.ls
           /\ href' = c.href
           /\ inflight' = inflight (-) SetToBag({req})
           /\ path' = Route(c.path, c.admin, c.loading)
           /\ guard' = GuardAt(c.path, c.admin, c.loading)
           /\ batch' = IF req.batch
                       THEN [clears |-> batch.clears + Count(i.trace, "clear"),
                             redirects |-> batch.redirects + Count(i.trace, "redirect")]
                       ELSE batch
           /\ saved' = IF Count(i.trace, "clear") > 0
                       THEN Saved("401", "", NoAdmin, saved.corrupt)
                       ELSE saved
           /\ last' = Record("response", reply, wrapperSettled(Settlement(i.trace)),
                             c, i.trace)
    /\ UNCHANGED <<admin, loading, formLoading, formError, productManagement, raw, data>>

\* A "Delete" button of the products table.
OpenDeleteModal(product) ==
    /\ ProductManagementMounted
    /\ product \in ProductIds
    /\ productManagement' = openDeleteModal(productManagement, product)
    /\ guard' = GuardAt(path, admin, loading)
    /\ last' = Record("openDeleteModal", NoReply, NoResult, Snapshot, << >>)
    /\ UNCHANGED <<localStorage, admin, loading, path, href, inflight,
                   formLoading, formError, batch, saved, raw, data>>

\* The "Cancel" button of the confirmation modal (disabled={deleting}).
CancelDelete ==
    /\ ProductManagementMounted
    /\ DeleteModalRendered
    /\ ~productManagement.deleting
    /\ productManagement' = closeDeleteModal(productManagement)
    /\ guard' = GuardAt(path, admin, loading)
    /\ last' = Record("closeDeleteModal", NoReply, NoResult, Snapshot, << >>)
    /\ UNCHANGED <<localStorage, admin, loading, path, href, inflight,
                   formLoading, formError, batch, saved, raw, data>>

\* The "Confirm Deletion" button (disabled={deleting}): confirmDelete up to
\* the await.
ConfirmDelete ==
    /\ ProductManagementMounted
    /\ DeleteModalRendered
    /\ ~productManagement.deleting
    /\ BagCardinality(inflight) < MaxReq
    /\ LET r == confirmDelete(productManagement, localStorage)
       IN  /\ productManagement' = r.pm
           /\ inflight' = inflight (+) r.out
           /\ last' = Record("confirmDelete", NoReply, NoResult,
                             [Snapshot EXCEPT !.out = r.out], << >>)
    /\ guard' = GuardAt(path, admin, loading)
    /\ UNCHANGED <<localStorage, admin, loading, path, href,
                   formLoading, formError, batch, saved, raw, data>>

\* The request of productsAPI.delete settles: response interceptor, then the
\* rest of confirmDelete.  State updates of an unmounted instance are
\* dropped by React; the requests of its fetchData() are sent all the same.
DeleteResponse(req, reply) ==
    /\ req \in BagToSet(inflight)
    /\ req.kind = "delete"
    /\ reply \in ApiReplies
    /\ LET i == ResponseInterceptor(localStorage, href, reply)
           r == confirmDeleteSettled(productManagement, Settlement(i.trace), i.ls, reply)
           c == [Snapshot EXCEPT !.ls = i.ls, !.href = i.href, !.out = r.out]
       IN  /\ r.out # EmptyBag
                => /\ BagCardinality(inflight) - 1 + BagCardinality(r.out) <= MaxReq
                   /\ \A q \in BagToSet(inflight) : ~q.batch
           /\ localStorage' = c.ls
           /\ href' = c.href
           /\ inflight' = (inflight (-) SetToBag({req})) (+) r.out
           /\ productManagement' = IF req.live THEN r.pm ELSE productManagement
           /\ path' = Route(c.path, c.admin, c.loading)
           /\ guard' = GuardAt(c.path, c.admin, c.loading)
           /\ batch' = IF r.out # EmptyBag THEN NoBatch ELSE batch
           /\ saved' = IF Count(i.trace, "clear") > 0
                       THEN Saved("401", "", NoAdmin, saved.corrupt)
                       ELSE saved
           /\ last' = Record("response", reply, r.result, c, i.trace)
    /\ UNCHANGED <<admin, loading, formLoading, formError, raw, data>>

Next ==
    \/ Restore
    \/ LoginSubmit
    \/ \E req \in BagToSet(inflight), reply \in LoginReplies : LoginResponse(req, reply)
    \/ HandleLogout
    \/ \E p \in {"/products", "/orders"} : ClickNav(p)
    \/ FetchData
    \/ SendApi
    \/ \E req \in BagToSet(inflight), reply \in ApiReplies : ApiResponse(req, reply)
    \/ PageUnload
    \/ \E p \in EntryPaths : Reload(p)

Spec == Init /\ [][Next]_vars

\* The browser's back or forward button while no protected view is on
\* screen: the router moves to an earlier location p without a reload, the
\* routes of App are rendered for it and AdminLogin is mounted afresh.  (The
\* model follows it while no login submission is pending.)
HistoryBack(p) ==
    /\ ~loading
    /\ ~ProtectedRendered
    /\ p \in EntryPaths
    /\ \A q \in BagToSet(inflight) : q.kind # "login"
    /\ path' = Route(p, admin, loading)
    /\ guard' = GuardAt(p, admin, loading)
    /\ inflight' = Orphaned(inflight)
    /\ formLoading' = FALSE
    /\ formError' = ""
    /\ productManagement' = ClosedModal
    /\ last' = Record("back", NoReply, NoResult, Snapshot, << >>)
    /\ UNCHANGED <<localStorage, admin, loading, href, batch, saved, raw, data>>

\* The session machine together with history navigation.
NavNext ==
    \/ Next
    \/ \E p \in EntryPaths : HistoryBack(p)

NavSpec == Init /\ [][NavNext]_vars

\* The session machine together with the delete flow of the products page.
PageNext ==
    \/ Next
    \/ \E product \in ProductIds : OpenDeleteModal(product)
    \/ CancelDelete
    \/ ConfirmDelete
    \/ \E req \in BagToSet(inflight), reply \in ApiReplies : DeleteResponse(req, reply)

PageSpec == Init /\ [][PageNext]_vars

\* The browser completes a navigation it has started, and React runs the
\* mount effect of a mounted provider.
LiveSpec == Spec /\ WF_vars(PageUnload) /\ WF_vars(Restore)

TypeOK ==
    /\ DOMAIN localStorage \subseteq {TOKEN_KEY, USER_KEY}
    /\ admin \in Users \cup {NoAdmin}
    /\ loading \in BOOLEAN
    /\ path \in EntryPaths
    /\ href \in {"", "/login"}
    /\ BagCardinality(inflight) <= MaxReq
    /\ formLoading \in BOOLEAN
    /\ productManagement.showDeleteModal \in BOOLEAN
    /\ productManagement.productToDelete \in ProductIds \cup {""}
    /\ productManagement.deleting \in BOOLEAN
    /\ productManagement.showSaleModal \in BOOLEAN
    /\ productManagement.expandedProduct \in ProductIds \cup {""}
    /\ productManagement.productDetails \in ProductIds \cup {""}
    /\ Len(productManagement.variants) >= 1
    /\ ProductManagementMounted
         \/ (productManagement = ClosedModal /\ \A q \in BagToSet(inflight) : ~q.live)

\* ------------------------------------------------------------------ signed-in administrator

\* The state after a process start at p with the session of an ADMIN login
\* in the store, once the restore effect has run.
SignedIn(p) ==
    LET ls == SessionStorage("t1", Stringify(Admin1))
        pre == [ls |-> ls, admin |-> NoAdmin, loading |-> TRUE,
                path |-> Route(p, NoAdmin, TRUE), href |-> "", out |-> EmptyBag]
    IN  /\ localStorage = ls
        /\ admin = Admin1
        /\ loading = FALSE
        /\ path = Route(pre.path, Admin1, FALSE)
        /\ guard = GuardAt(pre.path, Admin1, FALSE)
        /\ href = ""
        /\ inflight = EmptyBag
        /\ formLoading = FALSE
        /\ formError = ""
        /\ productManagement = ClosedModal
        /\ batch = NoBatch
        /\ saved = [Saved("start", "", NoAdmin, FALSE) EXCEPT !.restarted = TRUE]
        /\ last = [op |-> "restore", pre |-> pre, reply |-> NoReply, result |-> NoResult,
                   call |-> restoreSession(pre), trace |-> << >>]
        /\ raw = << >>
        /\ data = NoData

\* The products page with its delete flow, as a signed-in administrator
\* uses it.
DeleteNext ==
    \/ \E product \in ProductIds : OpenDeleteModal(product)
    \/ CancelDelete
    \/ ConfirmDelete
    \/ \E req \in BagToSet(inflight), reply \in ApiReplies : DeleteResponse(req, reply)
    \/ \E req \in BagToSet(inflight), reply \in ApiReplies : ApiResponse(req, reply)
    \/ \E p \in {"/products", "/orders"} : ClickNav(p)
    \/ PageUnload
    \/ Restore

DeleteSpec == SignedIn("/products") /\ [][DeleteNext]_vars

\* ------------------------------------------------------------------ variant form

VariantIndexes == DOMAIN productManagement.variants

SizeIndexes(variantIndex) == DOMAIN productManagement.variants[variantIndex].sizes

RECURSIVE Rows(_)
Rows(variants) ==
    IF variants = << >> THEN 0 ELSE Len(Head(variants).sizes) + Rows(Tail(variants))

\* A handler of the variant form that only sets the variants.
SetVariants(variants) ==
    /\ ProductManagementMounted
    /\ productManagement' = [productManagement EXCEPT !.variants = variants]
    /\ guard' = GuardAt(path, admin, loading)
    /\ last' = Record("setVariants", NoReply, NoResult, Snapshot, << >>)
    /\ UNCHANGED <<localStorage, admin, loading, path, href, inflight,
                   formLoading, formError, batch, saved, raw, data>>

\* "+ Add Color Variant"
AddVariant ==
    /\ Rows(productManagement.variants) < MaxRows
    /\ SetVariants(addVariant(productManagement.variants))

\* The trash button of a variant, rendered when variants.length > 1.
RemoveVariant(index) ==
    /\ Len(productManagement.variants) > 1
    /\ index \in VariantIndexes
    /\ SetVariants(removeVariant(productManagement.variants, index))

\* The colour select of a variant.
UpdateVariantColor(index, color) ==
    /\ index \in VariantIndexes
    /\ SetVariants(updateVariantColor(productManagement.variants, index, color))

\* "+ Add Size"
AddSizeToVariant(variantIndex) ==
    /\ variantIndex \in VariantIndexes
    /\ Rows(productManagement.variants) < MaxRows
    /\ SetVariants(addSizeToVariant(productManagement.variants, variantIndex))

\* The X button of a size row, rendered when variant.sizes.length > 1.
RemoveSizeFromVariant(variantIndex, sizeIndex) ==
    /\ variantIndex \in VariantIndexes
    /\ sizeIndex \in SizeIndexes(variantIndex)
    /\ Len(productManagement.variants[variantIndex].sizes) > 1
    /\ SetVariants(removeSizeFromVariant(productManagement.variants, variantIndex, sizeIndex))

\* The size input of a size row.
UpdateVariantSize(variantIndex, sizeIndex, value) ==
    /\ variantIndex \in VariantIndexes
    /\ sizeIndex \in SizeIndexes(variantIndex)
    /\ SetVariants(updateVariantSize(productManagement.variants, variantIndex, sizeIndex,
                                     "value", value))

\* The "Edit" button of a table row: openEditModal resets the variants.
OpenEditModal ==
    SetVariants(<<EmptyVariant("false")>>)

\* The submit button of the add form: handleAddProduct up to its await (the
\* model follows one submission at a time).
HandleAddProduct ==
    /\ ProductManagementMounted
    /\ BagCardinality(inflight) < MaxReq
    /\ \A q \in BagToSet(inflight) : q.caller # "handleAddProduct"
    /\ LET out == SetToBag({handleAddProduct(localStorage)})
       IN  /\ inflight' = inflight (+) out
           /\ last' = Record("send", NoReply, NoResult,
                             [Snapshot EXCEPT !.out = out], << >>)
    /\ guard' = GuardAt(path, admin, loading)
    /\ UNCHANGED <<localStorage, admin, loading, path, href, productManagement,
                   formLoading, formError, batch, saved, raw, data>>

\* The request of productsAPI.create settles: response interceptor, then the
\* rest of handleAddProduct.
AddProductResponse(req, reply) ==
    /\ req \in BagToSet(inflight)
    /\ req.caller = "handleAddProduct"
    /\ reply \in ApiReplies
    /\ LET i == ResponseInterceptor(localStorage, href, reply)
           r == handleAddProductSettled(productManagement, Settlement(i.trace), i.ls)
           c == [Snapshot EXCEPT !.ls = i.ls, !.href = i.href, !.out = r.out]
       IN  /\ r.out # EmptyBag
                => /\ BagCardinality(inflight) - 1 + BagCardinality(r.out) <= MaxReq
                   /\ \A q \in BagToSet(inflight) : ~q.batch
           /\ localStorage' = c.ls
           /\ href' = c.href
           /\ inflight' = (inflight (-) SetToBag({req})) (+) r.out
           /\ productManagement' = IF req.live THEN r.pm ELSE productManagement
           /\ path' = Route(c.path, c.admin, c.loading)
           /\ guard' = GuardAt(c.path, c.admin, c.loading)
           /\ batch' = IF r.out # EmptyBag THEN NoBatch ELSE batch
           /\ saved' = IF Count(i.trace, "clear") > 0
                       THEN Saved("401", "", NoAdmin, saved.corrupt)
                       ELSE saved
           /\ last' = Record("response", reply, r.result, c, i.trace)
    /\ UNCHANGED <<admin, loading, formLoading, formError, raw, data>>

FormNext ==
    \/ AddVariant
    \/ \E index \in VariantIndexes : RemoveVariant(index)
    \/ \E index \in VariantIndexes : UpdateVariantColor(index, "red")
    \/ \E variantIndex \in VariantIndexes : AddSizeToVariant(variantIndex)
    \/ \E variantIndex \in VariantIndexes :
          \E sizeIndex \in SizeIndexes(variantIndex) :
             RemoveSizeFromVariant(variantIndex, sizeIndex)
    \/ \E variantIndex \in VariantIndexes :
          \E sizeIndex \in SizeIndexes(variantIndex) :
             UpdateVariantSize(variantIndex, sizeIndex, "7")
    \/ OpenEditModal
    \/ HandleAddProduct
    \/ \E req \in BagToSet(inflight), reply \in ApiReplies : AddProductResponse(req, reply)
    \/ \E req \in BagToSet(inflight), reply \in ApiReplies : ApiResponse(req, reply)
    \/ PageUnload
    \/ Restore

FormSpec == SignedIn("/products") /\ [][FormNext]_vars

\* ------------------------------------------------------------------ sale modal

\* openSaleModal run from a product row; a row has the buttons of RowActions.
OpenSaleModal(product) ==
    /\ ProductManagementMounted
    /\ "openSaleModal" \in RowActions
    /\ product \in ProductIds
    /\ productManagement' = openSaleModal(productManagement, product)
    /\ guard' = GuardAt(path, admin, loading)
    /\ last' = Record("openSaleModal", NoReply, NoResult, Snapshot, << >>)
    /\ UNCHANGED <<localStorage, admin, loading, path, href, inflight,
                   formLoading, formError, batch, saved, raw, data>>

\* The "Put on Sale" button of the sale modal.
HandleMarkOnSale ==
    /\ ProductManagementMounted
    /\ SaleModalRendered(productManagement)
    /\ BagCardinality(inflight) < MaxReq
    /\ LET out == handleMarkOnSale(productManagement, localStorage)
       IN  /\ inflight' = inflight (+) out
           /\ last' = Record("send", NoReply, NoResult,
                             [Snapshot EXCEPT !.out = out], << >>)
    /\ guard' = GuardAt(path, admin, loading)
    /\ UNCHANGED <<localStorage, admin, loading, path, href, productManagement,
                   formLoading, formError, batch, saved, raw, data>>

\* ------------------------------------------------------------------ inventory panel

\* The "Inventory" button of a table row.
ToggleInventory(productId) ==
    /\ ProductManagementMounted
    /\ productId \in ProductIds
    /\ LET r == toggleInventory(productManagement, localStorage, productId)
       IN  /\ BagCardinality(inflight) + BagCardinality(r.out) <= MaxReq
           /\ productManagement' = r.pm
           /\ inflight' = inflight (+) r.out
           /\ last' = Record(IF r.out = EmptyBag THEN "collapse" ELSE "send",
                             NoReply, NoResult, [Snapshot EXCEPT !.out = r.out], << >>)
    /\ guard' = GuardAt(path, admin, loading)
    /\ UNCHANGED <<localStorage, admin, loading, path, href,
                   formLoading, formError, batch, saved, raw, data>>

\* The "Update" button of a row of the inventory panel (the model follows
\* one update at a time).
HandleUpdateInventory(newQuantity) ==
    /\ ProductManagementMounted
    /\ InventoryPanelRendered(productManagement)
    /\ newQuantity \in QuantityInputs
    /\ BagCardinality(inflight) < MaxReq
    /\ \A q \in BagToSet(inflight) : q.caller # "handleUpdateInventory"
    /\ LET out == SetToBag({handleUpdateInventory(productManagement, localStorage,
                                                  newQuantity)})
       IN  /\ inflight' = inflight (+) out
           /\ last' = Record("send", NoReply, NoResult,
                             [Snapshot EXCEPT !.out = out], << >>)
    /\ guard' = GuardAt(path, admin, loading)
    /\ UNCHANGED <<localStorage, admin, loading, path, href, productManagement,
                   formLoading, formError, batch, saved, raw, data>>

\* A request of the inventory panel settles: response interceptor, then the
\* rest of the handler.  An inventory update that succeeded goes on with
\* fetchProductDetails; the details request of handleUpdateInventory is
\* followed by fetchData() however it ended.
InventoryResponse(req, reply) ==
    /\ req \in BagToSet(inflight)
    /\ req.caller \in {"toggleInventory", "handleUpdateInventory"}
    /\ reply \in ApiReplies
    /\ LET i == ResponseInterceptor(localStorage, href, reply)
           ok == Settlement(i.trace) = "resolve"
           out == IF req.kind = "inventory.update"
                  THEN IF ok
                       THEN SetToBag({DetailsRequest(i.ls, req.id, req.caller, req.live)})
                       ELSE EmptyBag
                  ELSE IF req.caller = "handleUpdateInventory"
                       THEN fetchData(i.ls)
                       ELSE EmptyBag
           pm == IF req.kind = "products.getById" /\ req.live
                 THEN fetchProductDetailsSettled(productManagement,
                                                 Settlement(i.trace), req.id)
                 ELSE productManagement
           c == [Snapshot EXCEPT !.ls = i.ls, !.href = i.href, !.out = out]
       IN  /\ BagCardinality(out) > 1
                => /\ BagCardinality(inflight) - 1 + BagCardinality(out) <= MaxReq
                   /\ \A q \in BagToSet(inflight) : ~q.batch
           /\ localStorage' = c.ls
           /\ href' = c.href
           /\ inflight' = (inflight (-) SetToBag({req})) (+) out
           /\ productManagement' = pm
           /\ path' = Route(c.path, c.admin, c.loading)
           /\ guard' = GuardAt(c.path, c.admin, c.loading)
           /\ batch' = IF BagCardinality(out) > 1 THEN NoBatch ELSE batch
           /\ saved' = IF Count(i.trace, "clear") > 0
                       THEN Saved("401", "", NoAdmin, saved.corrupt)
                       ELSE saved
           /\ last' = Record("response", reply,
                             IF req.kind = "inventory.update" /\ ~ok
                             THEN [kind |-> "alert", success |-> FALSE,
                                   error |-> "Failed to update inventory"]
                             ELSE wrapperSettled(Settlement(i.trace)),
                             c, i.trace)
    /\ UNCHANGED <<admin, loading, formLoading, formError, raw, data>>

InventoryNext ==
    \/ \E productId \in ProductIds : ToggleInventory(productId)
    \/ \E newQuantity \in QuantityInputs : HandleUpdateInventory(newQuantity)
    \/ \E req \in BagToSet(inflight), reply \in ApiReplies : InventoryResponse(req, reply)
    \/ \E req \in BagToSet(inflight), reply \in ApiReplies : ApiResponse(req, reply)
    \/ PageUnload
    \/ Restore

InventorySpec == SignedIn("/products") /\ [][InventoryNext]_vars

\* ------------------------------------------------------------------ orders page

OrderIds == {"o1", "o2"}

\* The :id a view puts into the URL of a wrapper that takes one.
IdFor(kind) ==
    IF \E k \in DOMAIN Wrappers[kind].url : Wrappers[kind].url[k] = ":id"
    THEN IF Wrappers[kind].url[2] = "orders" THEN "o1" ELSE "p1"
    ELSE ""

\* A protected view calls a resource wrapper once.
CallWrapper(kind, id) ==
    /\ ProtectedRendered
    /\ kind \in DOMAIN Wrappers \ {"login"}
    /\ BagCardinality(inflight) < MaxReq
    /\ LET out == SetToBag({[Request(kind, localStorage, FALSE) EXCEPT !.id = id]})
       IN  /\ inflight' = inflight (+) out
           /\ last' = Record("send", NoReply, NoResult,
                             [Snapshot EXCEPT !.out = out], << >>)
    /\ guard' = GuardAt(path, admin, loading)
    /\ UNCHANGED <<localStorage, admin, loading, path, href,
                   formLoading, formError, productManagement, batch, saved, raw, data>>

\* OrderManagement.fetchOrders (mount effect).
FetchOrders ==
    /\ path = "/orders"
    /\ CallWrapper("orders.getAll", "")

\* The "View" button of an order row: handleViewOrder up to the await.
HandleViewOrder(order) ==
    /\ path = "/orders"
    /\ order \in OrderIds
    /\ CallWrapper("orders.getById", order)

OrdersNext ==
    \/ FetchOrders
    \/ \E order \in OrderIds : HandleViewOrder(order)
    \/ \E kind \in DOMAIN Wrappers \ {"login"} : CallWrapper(kind, IdFor(kind))
    \/ \E req \in BagToSet(inflight), reply \in ApiReplies : ApiResponse(req, reply)
    \/ \E p \in {"/products", "/orders"} : ClickNav(p)
    \/ HandleLogout
    \/ PageUnload
    \/ Restore

OrdersSpec == (\E p \in {"/products", "/orders"} : SignedIn(p)) /\ [][OrdersNext]_vars

\* ------------------------------------------------------------------ wrappers on data

\* The session machine at rest while the wrappers are exercised.
Idle ==
    /\ localStorage = EmptyStorage
    /\ admin = NoAdmin
    /\ loading = TRUE
    /\ path = "/login"
    /\ guard = NoGuard
    /\ href = ""
    /\ inflight = EmptyBag
    /\ formLoading = FALSE
    /\ formError = ""
    /\ productManagement = ClosedModal
    /\ batch = NoBatch
    /\ saved = [Saved("start", "", NoAdmin, FALSE) EXCEPT !.restarted = TRUE]
    /\ last = [op |-> "start",
               pre |-> [ls |-> EmptyStorage, admin |-> NoAdmin, loading |-> TRUE,
                        path |-> "/login", href |-> "", out |-> EmptyBag],
               reply |-> NoReply, result |-> NoResult,
               call |-> [ls |-> EmptyStorage, admin |-> NoAdmin, loading |-> TRUE,
                         path |-> "/login", href |-> "", out |-> EmptyBag],
               trace |-> << >>]

sessionVars == <<localStorage, admin, loading, path, guard, href, inflight,
                 formLoading, formError, productManagement, batch, saved, last>>

DataInit ==
    /\ Idle
    /\ raw \in RawLists(MaxData)
    /\ data = NoData

\* productsAPI.getAll returns the normalized list.
GetAllProducts ==
    /\ data' = [NoData EXCEPT !.op = "products", !.products = productsGetAll(raw)]
    /\ UNCHANGED <<raw, sessionVars>>

\* The normalization applied to the list productsAPI.getAll returned.
NormalizeAgain ==
    /\ data.op = "products"
    /\ data' = [data EXCEPT !.op = "again", !.again = productsGetAll(data.products)]
    /\ UNCHANGED <<raw, sessionVars>>

\* colorsAPI.getAll.
GetAllColors ==
    /\ data' = [NoData EXCEPT !.op = "colors", !.list = colorsGetAll(raw)]
    /\ UNCHANGED <<raw, sessionVars>>

\* sizesAPI.getAll.
GetAllSizes ==
    /\ data' = [NoData EXCEPT !.op = "sizes", !.list = sizesGetAll(raw)]
    /\ UNCHANGED <<raw, sessionVars>>

DataNext == GetAllProducts \/ NormalizeAgain \/ GetAllColors \/ GetAllSizes

DataSpec == DataInit /\ [][DataNext]_vars

\* ------------------------------------------------------------------ navigation without user input

\* A process start at any location with any store: nothing is rendered
\* through yet, the location is the one the browser was given.
AutoInit ==
    /\ localStorage \in InitStorages
    /\ admin = NoAdmin
    /\ loading = TRUE
    /\ path \in EntryPaths
    /\ guard = GuardAt(path, NoAdmin, TRUE)
    /\ href = ""
    /\ inflight = EmptyBag
    /\ formLoading = FALSE
    /\ formError = ""
    /\ productManagement = ClosedModal
    /\ batch = NoBatch
    /\ raw = << >>
    /\ data = NoData
    /\ saved = [Saved("start", "", NoAdmin, FALSE) EXCEPT !.restarted = TRUE]
    /\ last = [op |-> "start",
               pre |-> [ls |-> localStorage, admin |-> NoAdmin, loading |-> TRUE,
                        path |-> path, href |-> "", out |-> EmptyBag],
               reply |-> NoReply, result |-> NoResult,
               call |-> [ls |-> localStorage, admin |-> NoAdmin, loading |-> TRUE,
                         path |-> path, href |-> "", out |-> EmptyBag],
               trace |-> << >>]

\* The mount effect of AdminAuthProvider alone: the session check, with the
\* location left where it is.
SessionCheck ==
    /\ loading
    /\ LET c == restoreSession(Snapshot)
       IN  /\ localStorage' = c.ls
           /\ admin' = c.admin
           /\ loading' = c.loading
           /\ guard' = GuardAt(c.path, c.admin, c.loading)
           /\ href' = c.href
           /\ inflight' = inflight (+) c.out
           /\ saved' = [saved EXCEPT !.corrupt = saved.corrupt \/ c.ls # localStorage]
           /\ last' = Record("restore", NoReply, NoResult, c, << >>)
    /\ UNCHANGED <<path, formLoading, formError, productManagement, batch, raw, data>>

\* One redirect: the element rendered at the location navigates elsewhere.
Redirect ==
    /\ Navigate(path, admin, loading) # path
    /\ path' = Navigate(path, admin, loading)
    /\ guard' = GuardAt(path', admin, loading)
    /\ inflight' = Orphaned(inflight)
    /\ formLoading' = FALSE
    /\ formError' = ""
    /\ productManagement' = ClosedModal
    /\ last' = Record("redirect", NoReply, NoResult, Snapshot, << >>)
    /\ UNCHANGED <<localStorage, admin, loading, href, batch, saved, raw, data>>

\* The step before has mounted the page on screen: its mount effect runs.
JustMounted == last.op \in {"restore", "redirect"}

\* useEffect(() => { fetchData(); }, []) of ProductManagement.
MountProducts == JustMounted /\ FetchData

\* useEffect(() => { fetchOrders(); }, []) of OrderManagement.
MountOrders == JustMounted /\ FetchOrders

AutoNext ==
    \/ SessionCheck
    \/ Redirect
    \/ MountProducts
    \/ MountOrders
    \/ \E req \in BagToSet(inflight), reply \in ApiReplies : ApiResponse(req, reply)
    \/ PageUnload

\* React runs effects and navigations it has scheduled, the server answers
\* every request, and the browser completes a navigation it has started.
AutoSpec ==
    /\ AutoInit
    /\ [][AutoNext]_vars
    /\ WF_vars(SessionCheck)
    /\ WF_vars(Redirect)
    /\ WF_vars(MountProducts)
    /\ WF_vars(MountOrders)
    /\ WF_vars(\E req \in BagToSet(inflight), reply \in ApiReplies : ApiResponse(req, reply))
    /\ WF_vars(PageUnload)

\* ------------------------------------------------------------------ properties

AuthState ==
    IF loading THEN "Unknown"
    ELSE IF admin # NoAdmin THEN "Authenticated" ELSE "Unauthenticated"

HasToken(ls) == TOKEN_KEY \in DOMAIN ls
HasUser(ls) == USER_KEY \in DOMAIN ls

\* The store holds the session (t, u): the token and the encoded user record.
HoldsSession(ls, t, u) == ls = SessionStorage(t, Stringify(u))

\* What a process start would make of the store.
RestoredAdmin(ls) == restoreSession([Snapshot EXCEPT !.ls = ls, !.loading = TRUE]).admin

\* C1: a login whose request succeeds with a user that is not an ADMIN
\* returns a failure, writes nothing to the Session Store, leaves the Auth
\* Controller state as it was, and a restore afterwards finds no session.
C1_LoginGate ==
    (last.op = "login" /\ last.reply.status = 200 /\ last.reply.user.role # "ADMIN")
    => /\ last.result.kind = "returned"
       /\ ~last.result.success
       /\ localStorage = last.pre.ls
       /\ admin = last.pre.admin
       /\ loading = last.pre.loading
       /\ AuthState = "Unauthenticated"
       /\ RestoredAdmin(localStorage) = NoAdmin

C1_Witness ==
    /\ last.op = "login"
    /\ last.reply.status = 200
    /\ last.reply.user = Customer3
    /\ ~last.result.success
    /\ localStorage = EmptyStorage

\* C2: a login whose request succeeds with an ADMIN user stores exactly the
\* returned token and the returned user, makes the Auth Controller
\* Authenticated(user) and returns success.
C2_LoginEstablishesSession ==
    (last.op = "login" /\ last.reply.status = 200 /\ last.reply.user.role = "ADMIN")
    => /\ HoldsSession(localStorage, last.reply.token, last.reply.user)
       /\ admin = last.reply.user
       /\ AuthState = "Authenticated"
       /\ isAuthenticated
       /\ last.result = [kind |-> "returned", success |-> TRUE, error |-> ""]

C2_Witness ==
    /\ last.op = "login"
    /\ last.reply.status = 200
    /\ last.reply.token = "t1"
    /\ last.reply.user = Admin1
    /\ admin = Admin1
    /\ last.result.success

\* C3: when the login request fails (no response, or any status other than
\* 2xx, 401 included) login() returns a failure with the server's message if
\* there is one and the generic message otherwise, does not throw, and the
\* Auth Controller stays Unauthenticated.
C3_LoginFailure ==
    (last.op = "login" /\ last.reply.status # 200)
    => /\ last.result.kind = "returned"
       /\ ~last.result.success
       /\ (last.reply.status # 0 /\ last.reply.error # ""
              => last.result.error = last.reply.error)
       /\ (last.reply.status = 0 \/ last.reply.error = ""
              => last.result.error = "Login failed")
       /\ last.pre.admin = NoAdmin
       /\ AuthState = "Unauthenticated"

C3_Witness ==
    /\ last.op = "login"
    /\ last.reply.status = 401
    /\ last.reply.error = "Invalid credentials"
    /\ last.result.error = "Invalid credentials"
    /\ AuthState = "Unauthenticated"

\* C4: logout() removes both Session Store entries and makes the Auth
\* Controller Unauthenticated in whatever state it is called, and changes
\* neither the router location nor the window location.
C4_Logout ==
    (last.op = "logout")
    => /\ ~HasToken(last.call.ls) /\ ~HasUser(last.call.ls)
       /\ last.call.admin = NoAdmin
       /\ last.call.path = last.pre.path
       /\ last.call.href = last.pre.href
       /\ ~HasToken(localStorage) /\ ~HasUser(localStorage)
       /\ AuthState = "Unauthenticated"

C4_Witness ==
    /\ last.op = "logout"
    /\ HasToken(last.pre.ls) /\ HasUser(last.pre.ls)
    /\ last.pre.admin # NoAdmin
    /\ localStorage = EmptyStorage
    /\ admin = NoAdmin

\* C5: the response interceptor handles a 401 response by clearing the
\* Session Store, then redirecting to the login view, then rejecting to the
\* caller, each once; a response with any other status neither clears nor
\* redirects.
C5_Intercept401 ==
    (last.op \in {"response", "login"})
    => /\ (last.reply.status = 401
            => /\ last.trace = <<"clear", "redirect", "reject">>
               /\ ~HasToken(localStorage) /\ ~HasUser(localStorage)
               /\ href = "/login")
       /\ (last.reply.status # 401
            => /\ Count(last.trace, "clear") = 0
               /\ Count(last.trace, "redirect") = 0
               /\ href = last.pre.href
               /\ (last.reply.status # 200 => localStorage = last.pre.ls))

C5_Witness ==
    /\ last.op = "response"
    /\ last.reply.status = 401
    /\ HasToken(last.pre.ls)
    /\ last.pre.href = ""
    /\ href = "/login"
    /\ localStorage = EmptyStorage

\* C6: when several requests in flight together (the three of fetchData) are
\* all answered 401, the Session Store is cleared once and one redirect is
\* performed for the whole batch.
C6_OncePerBatch ==
    /\ batch.clears <= 1
    /\ batch.redirects <= 1

\* C7: the token entry is present in the Session Store exactly when the user
\* entry is.
C7_PairInvariant ==
    HasToken(localStorage) <=> HasUser(localStorage)

C7_Witness ==
    /\ last.op = "response"
    /\ last.reply.status = 401
    /\ HasToken(last.pre.ls) /\ HasUser(last.pre.ls)
    /\ ~HasToken(localStorage) /\ ~HasUser(localStorage)

\* C8: the session restore at process start makes the Auth Controller
\* Authenticated with the stored user when the store holds a session, and
\* Unauthenticated otherwise, and sends no request.
C8_Restore ==
    (last.op = "restore")
    => /\ ~loading
       /\ last.call.out = EmptyBag
       /\ inflight = EmptyBag
       /\ \A t \in Tokens, u \in Users :
             HoldsSession(last.pre.ls, t, u) => admin = u /\ AuthState = "Authenticated"
       /\ (~(\E t \in Tokens, u \in Users : HoldsSession(last.pre.ls, t, u))
             => AuthState = "Unauthenticated")

C8_Witness ==
    /\ last.op = "restore"
    /\ HoldsSession(last.pre.ls, "t2", Admin2)
    /\ admin = Admin2
    /\ inflight = EmptyBag

\* The stored user payload is not JSON.
Undecodable(ls) == HasToken(ls) /\ HasUser(ls) /\ ls[USER_KEY] \in CorruptTexts

C10_RoundTrip ==
    (~loading /\ saved.restarted)
    => /\ (saved.by = "login"
            => /\ admin = saved.user
               /\ HasToken(localStorage)
               /\ localStorage[TOKEN_KEY] = saved.token)
       /\ (saved.by = "logout"
            => /\ admin = NoAdmin
               /\ localStorage = EmptyStorage)

C10_Witness ==
    /\ last.op = "restore"
    /\ saved.restarted
    /\ saved.by = "login"
    /\ saved.user = Admin2
    /\ admin = Admin2

\* C11: under ProtectedRoute, while the Auth Controller is Unknown only the
\* pending indicator is rendered (no protected content, no redirect); once it
\* is resolved the protected content is rendered exactly when the state is
\* Authenticated, and otherwise a history-replacing redirect to /login is
\* issued.
C11_RouteGuard ==
    /\ loading => guard.view \in {"pending", "none"}
    /\ (loading /\ path \in ProtectedPaths) => guard.view = "pending"
    /\ guard.view = "pending" => (loading /\ path \in ProtectedPaths)
    /\ (~loading /\ guard.view # "none")
         => (guard.view = "outlet" <=> AuthState = "Authenticated")
    /\ guard.view = "outlet" => ProtectedRendered
    /\ ProtectedRendered => guard.view = "outlet"
    /\ guard.view = "redirect"
         => /\ AuthState = "Unauthenticated"
            /\ guard.to = "/login" /\ guard.replace
            /\ path = "/login"

C11_Witness ==
    /\ last.op = "restore"
    /\ last.pre.path = "/orders"
    /\ last.pre.ls = EmptyStorage
    /\ guard.view = "redirect"
    /\ path = "/login"

\* The operations that send requests through adminAxios.
SendingOps == {"submit", "send", "fetchData", "confirmDelete"}

\* C12: every request sent through the API Client, the login request
\* included, carries Authorization: Bearer <token> with the token stored at
\* the moment of sending, and no Authorization header when none is stored.
C12_BearerHeader ==
    (last.op \in SendingOps)
    => /\ last.call.out # EmptyBag
       /\ \A q \in BagToSet(last.call.out) :
            /\ BagIn(q, inflight)
            /\ HasToken(last.pre.ls) => q.hdr = <<"Bearer", last.pre.ls[TOKEN_KEY]>>
            /\ ~HasToken(last.pre.ls) => q.hdr = << >>

C12_Witness ==
    /\ last.op = "send"
    /\ ~HasToken(last.pre.ls)
    /\ \E q \in BagToSet(inflight) : q.kind = "api" /\ q.hdr = << >>
    /\ \E q \in BagToSet(inflight) : q.kind = "api" /\ q.hdr = <<"Bearer", "t2">>

\* C13: only Auth Controller operations (restore, login, logout) write or
\* remove the Session Store entries.
C13_SoleWriter ==
    localStorage # last.pre.ls
    => /\ last.op \in {"restore", "login", "logout"}
       /\ Count(last.trace, "clear") = 0

Intercepted401 == last.op \in {"response", "login"} /\ last.reply.status = 401

SessionEnded == ~isAuthenticated /\ localStorage = EmptyStorage

SameProcess == last'.op # "start"

\* C15: within one process the Auth Controller starts Unknown, is out of
\* Unknown once the session check has run and never returns to it; it
\* becomes Authenticated only by a restore that finds a session or by a
\* successful ADMIN login, and leaves Authenticated only to Unauthenticated.
C15_StateMachine ==
    /\ [](last.op = "start" => AuthState = "Unknown")
    /\ [](last.op = "restore" => AuthState # "Unknown")
    /\ [][SameProcess
            => /\ AuthState # "Unknown" => AuthState' # "Unknown"
               /\ (AuthState # "Authenticated" /\ AuthState' = "Authenticated")
                    => \/ /\ last'.op = "restore"
                          /\ \E t \in Tokens, u \in Users :
                                HoldsSession(localStorage, t, u)
                       \/ /\ last'.op = "login"
                          /\ last'.reply.status = 200
                          /\ last'.reply.user.role = "ADMIN"
                          /\ last'.result.success
               /\ (AuthState = "Authenticated" /\ AuthState' # "Authenticated")
                    => AuthState' = "Unauthenticated"]_vars

C15_Witness ==
    /\ last.op = "logout"
    /\ last.pre.admin = Admin1
    /\ ~last.pre.loading
    /\ AuthState = "Unauthenticated"

\* The scalar an item stands for, whatever its shape.
Scalar(x) == Bare(x.type, x.v)

Range(q) == {q[k] : k \in DOMAIN q}

Reverse(q) == [k \in DOMAIN q |-> q[Len(q) + 1 - k]]

\* C16: productsAPI.getAll returns, for every raw product, colors as plain
\* strings only and sizes as {value} objects only, item by item in input
\* order, and image set from main_image.
C16_Normalization ==
    (data.op = "products")
    => /\ Len(data.products) = Len(raw)
       /\ \A k \in DOMAIN raw :
            LET p == data.products[k]
            IN  /\ p.image = raw[k].main_image
                /\ Len(p.colors) = Len(raw[k].colors)
                /\ Len(p.sizes) = Len(raw[k].sizes)
                /\ \A i \in DOMAIN p.colors :
                     IsString(p.colors[i]) /\ p.colors[i] = Scalar(raw[k].colors[i])
                /\ \A i \in DOMAIN p.sizes :
                     /\ p.sizes[i].shape = "obj"
                     /\ Scalar(p.sizes[i]) = Scalar(raw[k].sizes[i])

\* C17: normalizing the list productsAPI.getAll returned gives that list
\* again.
C17_Idempotent ==
    (data.op = "again") => data.again = data.products

C17_Witness ==
    /\ data.op = "again"
    /\ Len(raw) = 1
    /\ raw[1].colors = <<Bare("string", "red"), Wrapped("string", "blue")>>
    /\ raw[1].sizes = <<Bare("string", "7"), Wrapped("string", "8")>>
    /\ data.products[1].colors = <<Bare("string", "red"), Bare("string", "blue")>>
    /\ data.products[1].sizes = <<Wrapped("string", "7"), Wrapped("string", "8")>>
    /\ data.again = data.products

\* C18: colorsAPI.getAll and sizesAPI.getAll return every distinct value of
\* the product list exactly once, whichever shape its occurrences have, and
\* the set of values returned is the same for the products in another order.
C18_DedupByValue ==
    (data.op \in {"colors", "sizes"})
    => LET field == IF data.op = "colors" THEN "colors" ELSE "sizes"
           values == {Scalar(x) : x \in Range(FlatMap(raw, field))}
           other == IF data.op = "colors" THEN colorsGetAll(Reverse(raw))
                    ELSE sizesGetAll(Reverse(raw))
       IN  /\ \A v \in values :
                Cardinality({k \in DOMAIN data.list : Scalar(data.list[k].value) = v}) = 1
           /\ {Scalar(e.value) : e \in Range(data.list)} = values
           /\ {Scalar(e.value) : e \in Range(other)} = values

\* C19: a wrapper call sends one HTTP request (fetchData, three calls, sends
\* three); when a request fails, with or without a response, nothing is sent
\* again and the caller gets a rejection, after the clearing and the redirect
\* when the status is 401; no other step adds a request.
C19_NoRetry ==
    [][LET op == last'.op
           out == last'.call.out
       IN  /\ op \in {"submit", "send", "confirmDelete"}
                => BagCardinality(out) = 1 /\ inflight' = inflight (+) out
           /\ op = "fetchData"
                => BagCardinality(out) = 3 /\ inflight' = inflight (+) out
           /\ (op \in {"login", "response"} /\ last'.reply.status # 200)
                => /\ BagCardinality(inflight') = BagCardinality(inflight) - 1
                   /\ out = EmptyBag
                   /\ Settlement(last'.trace) = "reject"
                   /\ last'.result.kind \in {"returned", "rejected", "alert"}
                   /\ ~last'.result.success
                   /\ last'.reply.status = 401
                        => last'.trace = <<"clear", "redirect", "reject">>
           /\ op \notin {"submit", "send", "confirmDelete", "fetchData", "login", "response"}
                => BagCardinality(inflight') <= BagCardinality(inflight)
      ]_vars

C19_Witness ==
    /\ last.op = "response"
    /\ last.reply.status = 0
    /\ last.trace = <<"reject">>
    /\ last.result.kind = "rejected"
    /\ localStorage = last.pre.ls
    /\ HasToken(localStorage)
    /\ inflight = EmptyBag

\* The delete requests in flight.
DeleteRequests ==
    [q \in {r \in BagToSet(inflight) : r.kind = "delete"} |-> CopiesIn(q, inflight)]

\* C20: a DELETE request for a product is sent only by the confirm button of
\* the modal opened for that product, the button is disabled while the
\* request of the page on screen is in flight, and no two delete requests
\* are in flight together.
C20_ConfirmedSingleDelete ==
    /\ [](BagCardinality(DeleteRequests) <= 1)
    /\ []((\E q \in BagToSet(inflight) : q.kind = "delete" /\ q.live)
            => productManagement.deleting)
    /\ [][BagCardinality(DeleteRequests') > BagCardinality(DeleteRequests)
            => /\ last'.op = "confirmDelete"
               /\ DeleteModalRendered
               /\ ~productManagement.deleting
               /\ \A q \in BagToSet(last'.call.out) :
                    q.kind = "delete" /\ q.id = productManagement.productToDelete
          ]_vars

\* C21: when login() has ended with a failure result the login view shows
\* that result's message (the server's when it sent one, "Login failed"
\* otherwise), and the message stays on screen until the next submission of
\* the form or until the administrator opens a new document.
C21_BannerUntilSubmit ==
    /\ []((last.op = "login" /\ ~last.result.success)
            => /\ formError = last.result.error
               /\ formError # ""
               /\ path = "/login"
               /\ (last.reply.status \in {401, 500} /\ last.reply.error # "")
                    => formError = last.reply.error
               /\ (last.reply.status # 200 /\ last.reply.error = "")
                    => formError = "Login failed")
    /\ [][(formError # "" /\ formError' # formError)
            => \/ last'.op = "submit"
               \/ last'.op = "start" /\ href = ""]_vars

\* The requests in flight whose URL lies under /admin/orders.
OrderRequests ==
    {q \in BagToSet(inflight) :
        Len(q.url) >= 2 /\ q.url[1] = "admin" /\ q.url[2] = "orders"}

\* C22: every request sent to a path under /admin/orders is a GET, whatever
\* the administrator has done before.
C22_OrdersReadOnly == \A q \in OrderRequests : q.method = "GET"

C22_Witness ==
    /\ last.op = "send"
    /\ \E q \in OrderRequests : q.kind = "orders.getById" /\ q.id = "o2"
    /\ \E q \in OrderRequests : q.kind = "orders.getAll"
    /\ \E q \in BagToSet(inflight) : q.method = "PATCH"

\* The inventory-update requests in flight.
InventoryUpdates == {q \in BagToSet(inflight) : q.kind = "inventory.update"}

\* C23: every inventory-update request carries a quantity that is an
\* integer not below zero, whatever text the quantity input held.
C23_QuantityNonNegative ==
    \A q \in InventoryUpdates : ~q.body.quantity.nan /\ q.body.quantity.n >= 0

\* C29: whenever the inventory panel is rendered for a product, the details
\* shown are those of that product, and an inventory update names the size
\* and colour identifiers of the product it is sent for.
C29_PanelShowsOwnDetails ==
    /\ InventoryPanelRendered(productManagement)
         => productManagement.productDetails = productManagement.expandedProduct
    /\ \A q \in InventoryUpdates : q.body.detailsOf = q.id

\* C24: from the loaded product table the administrator can get the sale
\* modal opened for a listed product and the mark-on-sale request sent: on
\* the products page the modal is open, or a row offers the step that opens it.
C24_CanPlaceOnSale ==
    ProductManagementMounted
    => \/ SaleModalRendered(productManagement) /\ ENABLED HandleMarkOnSale
       \/ \E product \in ProductIds : ENABLED OpenSaleModal(product)

\* C25: the variants list holds at least one variant and every variant
\* holds at least one size row, after any sequence of form operations and
\* form resets.
C25_VariantFormInvariant ==
    /\ Len(productManagement.variants) >= 1
    /\ \A k \in DOMAIN productManagement.variants :
          Len(productManagement.variants[k].sizes) >= 1

C25_Witness ==
    /\ last.op = "response"
    /\ last.result.kind = "returned"
    /\ last.pre.path = "/products"
    /\ productManagement.variants = <<EmptyVariant("undefined")>>
    /\ BagCardinality(inflight) = 3

\* The delete request of the page on screen is in flight.
LiveDelete == \E q \in BagToSet(inflight) : q.kind = "delete" /\ q.live

\* C26: when the delete request of the page on screen completes, the
\* deleting flag is false again; after a failure the confirmation modal is
\* still open with the same product and no request is sent; after a success
\* the modal is closed and the three requests of fetchData are sent.
C26_DeleteOutcome ==
    [][(last'.op = "response" /\ LiveDelete /\ ~LiveDelete')
         => /\ ~productManagement'.deleting
            /\ IF last'.reply.status = 200
               THEN /\ ~productManagement'.showDeleteModal
                    /\ productManagement'.productToDelete = ""
                    /\ last'.call.out = fetchData(localStorage')
                    /\ \A q \in BagToSet(last'.call.out) : CopiesIn(q, inflight') >= 3
               ELSE /\ productManagement'.showDeleteModal
                    /\ productManagement'.productToDelete = productManagement.productToDelete
                    /\ productManagement'.productToDelete \in ProductIds
                    /\ last'.call.out = EmptyBag
                    /\ BagCardinality(inflight') = BagCardinality(inflight) - 1
      ]_vars

C26_Witness ==
    /\ last.op = "response"
    /\ last.reply.status = 500
    /\ last.result.kind = "alert"
    /\ last.result.error = "Failed to delete product"
    /\ path = "/products"
    /\ DeleteModalRendered
    /\ ~productManagement.deleting
    /\ ~LiveDelete

\* logout() has run and no login has succeeded since.
LoggedOut == saved.by = "logout" \/ (saved.by = "401" /\ SessionEnded)

\* C27: once logout() has run, the Auth Controller is not authenticated, the
\* Session Store is empty and no protected view is rendered, and so it
\* remains through reloads, history navigation and the responses to requests
\* sent before the logout, until a login with role ADMIN succeeds.
C27_NoProtectedViewAfterLogout ==
    /\ [](saved.by = "logout" => (SessionEnded /\ ~ProtectedRendered /\ guard.view # "outlet"))
    /\ [][LoggedOut => \/ LoggedOut' /\ SessionEnded' /\ ~ProtectedRendered'
                       \/ /\ saved'.by = "login"
                          /\ last'.op = "login"
                          /\ last'.reply.status = 200
                          /\ last'.reply.user.role = "ADMIN"]_vars

C27_Witness ==
    /\ saved.by = "logout"
    /\ last.op = "response"
    /\ last.reply.status = 200
    /\ last.pre.path = "/login"
    /\ path = "/login"
    /\ ~ProtectedRendered

\* The requests that leave the in-flight bag in this step.
Answered == {q \in BagToSet(inflight) : CopiesIn(q, inflight') < CopiesIn(q, inflight)}

\* C28: when the 401 answer to a request empties a Session Store that holds
\* the session of a successful ADMIN login, that request was sent with the
\* token the store holds, hence after that login.
C28_StaleResponseKeepsSession ==
    [][(/\ saved.by = "login"
        /\ HasToken(localStorage)
        /\ last'.op = "response"
        /\ last'.reply.status = 401
        /\ localStorage' = EmptyStorage)
         => \A q \in Answered : q.hdr = <<"Bearer", localStorage[TOKEN_KEY]>>]_vars

\* Nothing is pending: no redirect, no hard navigation, no session check and
\* no request; the login view is shown to an unauthenticated visitor or a
\* protected view to an authenticated administrator.
Settled ==
    /\ Navigate(path, admin, loading) = path
    /\ href = ""
    /\ inflight = EmptyBag
    /\ \/ path = "/login" /\ AuthState = "Unauthenticated"
       \/ ProtectedRendered /\ AuthState = "Authenticated"

\* C30: from any location, any Session Store contents and any server
\* answers, the redirects of the login view, the Route Guard and the 401
\* interceptor come to an end: navigation reaches a settled state and stays
\* in it.
C30_NavigationSettles == <>[]Settled

C30_Witness ==
    /\ Settled
    /\ last.op = "restore"
    /\ last.pre.path = "/login"
    /\ last.pre.ls = EmptyStorage
    /\ saved.by = "401"

====
